---- MODULE Spec2Model ----
(***************************************************************************)
(* Cost estimation engine of terraform-cost-guard: the price catalog       *)
(* (NewDefaultPricing), the per-resource-type pricing functions and the    *)
(* loop of Estimator.Estimate over the resource changes of a plan.         *)
(*                                                                         *)
(* Money is float64 in the source.  Here it is an integer number of        *)
(* quarter micro-dollars (1 USD = 4,000,000 units), the coarsest unit in   *)
(* which every rate of the catalog, the Fargate task rate and the Lambda   *)
(* estimate for memory sizes that are multiples of 128 MB are exact.       *)
(* Numeric attributes are integers.                                        *)
(***************************************************************************)
EXTENDS Integers, Sequences, FiniteSets, TLC

VARIABLES
    pc,              \* position of the Estimate call ("loop", "done") or of the pricing call
    pricing,         \* Estimator.pricing, the catalog built by NewEstimator
    plan,            \* p.ResourceChanges, the changes the loop has read so far
    result,          \* the EstimationResult under construction
    unsupportedSet,  \* the local map[string]bool of Estimate, as the set of its keys
    call,            \* one call of estimateResourceCost: its arguments and its return value
    pos,             \* the number of changes the range loop of the running call has read
    first,           \* what an earlier call of Estimate on this estimator returned, if any
    parked           \* the locals of a second, concurrent call of Estimate while it is not running

vars == <<pc, pricing, plan, result, unsupportedSet, call, pos, first, parked>>

\* Longest plan the model runs Estimate on.
MaxChanges == 2

(***************************************************************************)
(* Price catalog                                                           *)
(***************************************************************************)

\* A rate the source writes as n * 0.0001 USD.
R(n) == n * 400

NewDefaultPricing ==
    [ EC2Instances |->
          "t3.nano" :> R(52) @@ "t3.micro" :> R(104) @@ "t3.small" :> R(208)
       @@ "t3.medium" :> R(416) @@ "t3.large" :> R(832) @@ "t3.xlarge" :> R(1664)
       @@ "t3.2xlarge" :> R(3328) @@ "t3a.nano" :> R(47) @@ "t3a.micro" :> R(94)
       @@ "t3a.small" :> R(188) @@ "t3a.medium" :> R(376) @@ "t3a.large" :> R(752)
       @@ "t3a.xlarge" :> R(1504) @@ "t3a.2xlarge" :> R(3008)
       @@ "m5.large" :> R(960) @@ "m5.xlarge" :> R(1920) @@ "m5.2xlarge" :> R(3840)
       @@ "m5.4xlarge" :> R(7680) @@ "m5.8xlarge" :> R(15360) @@ "m5.12xlarge" :> R(23040)
       @@ "m5.16xlarge" :> R(30720) @@ "m5.24xlarge" :> R(46080)
       @@ "m6i.large" :> R(960) @@ "m6i.xlarge" :> R(1920) @@ "m6i.2xlarge" :> R(3840)
       @@ "m6i.4xlarge" :> R(7680)
       @@ "c5.large" :> R(850) @@ "c5.xlarge" :> R(1700) @@ "c5.2xlarge" :> R(3400)
       @@ "c5.4xlarge" :> R(6800) @@ "c5.9xlarge" :> R(15300) @@ "c5.18xlarge" :> R(30600)
       @@ "c6i.large" :> R(850) @@ "c6i.xlarge" :> R(1700) @@ "c6i.2xlarge" :> R(3400)
       @@ "r5.large" :> R(1260) @@ "r5.xlarge" :> R(2520) @@ "r5.2xlarge" :> R(5040)
       @@ "r5.4xlarge" :> R(10080) @@ "r5.8xlarge" :> R(20160) @@ "r5.12xlarge" :> R(30240)
       @@ "p3.2xlarge" :> R(30600) @@ "p3.8xlarge" :> R(122400) @@ "p3.16xlarge" :> R(244800)
       @@ "g4dn.xlarge" :> R(5260) @@ "g4dn.2xlarge" :> R(7520) @@ "g4dn.4xlarge" :> R(12040),
      RDSInstances |->
          "db.t3.micro" :> R(170) @@ "db.t3.small" :> R(340) @@ "db.t3.medium" :> R(680)
       @@ "db.t3.large" :> R(1360) @@ "db.t3.xlarge" :> R(2720) @@ "db.t3.2xlarge" :> R(5440)
       @@ "db.m5.large" :> R(1710) @@ "db.m5.xlarge" :> R(3420) @@ "db.m5.2xlarge" :> R(6840)
       @@ "db.m5.4xlarge" :> R(13680)
       @@ "db.r5.large" :> R(2400) @@ "db.r5.xlarge" :> R(4800) @@ "db.r5.2xlarge" :> R(9600)
       @@ "db.r5.4xlarge" :> R(19200),
      EBSStorage |->
          "gp2" :> R(1000) @@ "gp3" :> R(800) @@ "io1" :> R(1250) @@ "io2" :> R(1250)
       @@ "st1" :> R(450) @@ "sc1" :> R(150) @@ "standard" :> R(500),
      LoadBalancers |->
          "alb" :> R(225) @@ "nlb" :> R(225) @@ "classic" :> R(250),
      NATGateway |-> R(450),
      Elasticache |->
          "cache.t3.micro" :> R(170) @@ "cache.t3.small" :> R(340) @@ "cache.t3.medium" :> R(680)
       @@ "cache.m5.large" :> R(1560) @@ "cache.m5.xlarge" :> R(3120)
       @@ "cache.m5.2xlarge" :> R(6240)
       @@ "cache.r5.large" :> R(2260) @@ "cache.r5.xlarge" :> R(4520),
      EKSCluster |-> R(1000),
      GCPInstances |->
          "e2-micro" :> R(84) @@ "e2-small" :> R(168) @@ "e2-medium" :> R(336)
       @@ "e2-standard-2" :> R(672) @@ "e2-standard-4" :> R(1344) @@ "e2-standard-8" :> R(2688)
       @@ "n1-standard-1" :> R(475) @@ "n1-standard-2" :> R(950) @@ "n1-standard-4" :> R(1900)
       @@ "n1-standard-8" :> R(3800)
       @@ "n2-standard-2" :> R(971) @@ "n2-standard-4" :> R(1942) @@ "n2-standard-8" :> R(3884),
      AzureVMs |->
          "Standard_B1s" :> R(104) @@ "Standard_B1ms" :> R(207) @@ "Standard_B2s" :> R(416)
       @@ "Standard_B2ms" :> R(832)
       @@ "Standard_D2s_v3" :> R(960) @@ "Standard_D4s_v3" :> R(1920)
       @@ "Standard_D8s_v3" :> R(3840)
       @@ "Standard_E2s_v3" :> R(1260) @@ "Standard_E4s_v3" :> R(2520)
       @@ "Standard_E8s_v3" :> R(5040)
       @@ "Standard_F2s_v2" :> R(850) @@ "Standard_F4s_v2" :> R(1690)
       @@ "Standard_F8s_v2" :> R(3380) ]

(***************************************************************************)
(* Attribute maps: map[string]interface{}, possibly nil                    *)
(***************************************************************************)

EmptyMap == [k \in {} |-> 0]

\* A nil attribute map (JSON null) and a non-nil one holding kv.
NilAttrs == [nil |-> TRUE, kv |-> EmptyMap]
Attrs(kv) == [nil |-> FALSE, kv |-> kv]

\* interface{} values: a JSON string, a JSON number, anything else.
Str(s) == [kind |-> "string", s |-> s, n |-> 0]
Num(n) == [kind |-> "float64", s |-> "", n |-> n]
Other == [kind |-> "bool", s |-> "", n |-> 0]

\* m[k] of a Go map[string]float64: the zero value when the key is missing.
MapGet(m, k) == IF k \in DOMAIN m THEN m[k] ELSE 0

getStringAttr(attrs, key, defaultVal) ==
    IF key \in DOMAIN attrs.kv /\ attrs.kv[key].kind = "string"
    THEN attrs.kv[key].s
    ELSE defaultVal

getFloat64Attr(attrs, key, defaultVal) ==
    IF key \in DOMAIN attrs.kv /\ attrs.kv[key].kind \in {"float64", "int", "int64"}
    THEN attrs.kv[key].n
    ELSE defaultVal

RECURSIVE containsAction(_, _)
containsAction(actions, target) ==
    IF actions = <<>> THEN FALSE
    ELSE IF Head(actions) = target THEN TRUE
    ELSE containsAction(Tail(actions), target)

\* strings.Join(elems, sep)
RECURSIVE Join(_, _)
Join(elems, sep) ==
    IF elems = <<>> THEN ""
    ELSE IF Len(elems) = 1 THEN elems[1]
    ELSE elems[1] \o sep \o Join(Tail(elems), sep)

(***************************************************************************)
(* Pricing functions.  Each returns (cost, details, supported).            *)
(***************************************************************************)

Ret(cost, details, supported) ==
    [cost |-> cost, details |-> details, supported |-> supported]

\* estimateEC2Instance without the fallback to t3.micro.
estimateEC2Instance_NoFallback(attrs) ==
    LET instanceType == getStringAttr(attrs, "instance_type", "t3.micro")
        hourlyRate == MapGet(pricing.EC2Instances, instanceType)
    IN  Ret(hourlyRate * 730, "EC2 " \o instanceType, TRUE)

estimateEC2Instance(attrs) ==
    LET instanceType == getStringAttr(attrs, "instance_type", "t3.micro")
        looked == MapGet(pricing.EC2Instances, instanceType)
        hourlyRate == IF looked = 0 THEN MapGet(pricing.EC2Instances, "t3.micro") ELSE looked
    IN  Ret(hourlyRate * 730, "EC2 " \o instanceType, TRUE)

estimateRDSInstance(attrs) ==
    LET instanceClass == getStringAttr(attrs, "instance_class", "db.t3.micro")
        looked == MapGet(pricing.RDSInstances, instanceClass)
        hourlyRate == IF looked = 0 THEN MapGet(pricing.RDSInstances, "db.t3.micro") ELSE looked
        storageGB == getFloat64Attr(attrs, "allocated_storage", 20)
        storageCost == storageGB * MapGet(pricing.EBSStorage, "gp2")
    IN  Ret((hourlyRate * 730) + storageCost,
            "RDS " \o instanceClass \o " + " \o ToString(storageGB) \o "GB storage", TRUE)

estimateEBSVolume(attrs) ==
    LET volumeType == getStringAttr(attrs, "type", "gp2")
        sizeGB == getFloat64Attr(attrs, "size", 8)
        looked == MapGet(pricing.EBSStorage, volumeType)
        rate == IF looked = 0 THEN MapGet(pricing.EBSStorage, "gp2") ELSE looked
    IN  Ret(sizeGB * rate, "EBS " \o volumeType \o " " \o ToString(sizeGB) \o "GB", TRUE)

estimateALB(attrs) ==
    Ret(MapGet(pricing.LoadBalancers, "alb") * 730, "Application Load Balancer", TRUE)

estimateELB(attrs) ==
    Ret(MapGet(pricing.LoadBalancers, "classic") * 730, "Classic Load Balancer", TRUE)

estimateNATGateway(attrs) ==
    Ret(pricing.NATGateway * 730, "NAT Gateway", TRUE)

estimateElasticache(attrs) ==
    LET nodeType == getStringAttr(attrs, "node_type", "cache.t3.micro")
        numNodes == getFloat64Attr(attrs, "num_cache_nodes", 1)
        looked == MapGet(pricing.Elasticache, nodeType)
        hourlyRate == IF looked = 0 THEN MapGet(pricing.Elasticache, "cache.t3.micro") ELSE looked
    IN  Ret(hourlyRate * 730 * numNodes,
            "Elasticache " \o nodeType \o " x" \o ToString(numNodes), TRUE)

\* (memoryMB / 1024) * 0.0000166667 * 100 * 1000000 / 1000 USD
\*   = memoryMB * 1.66667 / 1024 USD = memoryMB * 833335 / 128 units.
estimateLambda(attrs) ==
    LET memoryMB == getFloat64Attr(attrs, "memory_size", 128)
    IN  Ret((memoryMB * 833335) \div 128,
            "Lambda " \o ToString(memoryMB) \o "MB (estimated)", TRUE)

\* 0.023 USD
estimateS3Bucket(attrs) ==
    Ret(R(230), "S3 Bucket (minimal estimate)", TRUE)

estimateEKSCluster(attrs) ==
    Ret(pricing.EKSCluster * 730, "EKS Cluster", TRUE)

\* desiredCount * (0.25*0.04048 + 0.5*0.004445) * 730 USD;
\* 0.04048 USD = 161920 units, 0.004445 USD = 17780 units.
estimateECSService(attrs) ==
    LET desiredCount == getFloat64Attr(attrs, "desired_count", 1)
    IN  Ret(desiredCount * ((161920 \div 4) + (17780 \div 2)) * 730,
            "ECS Service (" \o ToString(desiredCount) \o " tasks, Fargate estimate)", TRUE)

\* estimateGCPInstance falling back to e2-small.
estimateGCPInstance_FallbackSmall(attrs) ==
    LET machineType == getStringAttr(attrs, "machine_type", "e2-micro")
        looked == MapGet(pricing.GCPInstances, machineType)
        hourlyRate == IF looked = 0 THEN MapGet(pricing.GCPInstances, "e2-small") ELSE looked
    IN  Ret(hourlyRate * 730, "GCP " \o machineType, TRUE)

estimateGCPInstance(attrs) ==
    LET machineType == getStringAttr(attrs, "machine_type", "e2-micro")
        looked == MapGet(pricing.GCPInstances, machineType)
        hourlyRate == IF looked = 0 THEN MapGet(pricing.GCPInstances, "e2-micro") ELSE looked
    IN  Ret(hourlyRate * 730, "GCP " \o machineType, TRUE)

estimateAzureVM(attrs) ==
    LET size0 == getStringAttr(attrs, "size", "Standard_B1s")
        size == IF size0 = "" THEN getStringAttr(attrs, "vm_size", "Standard_B1s") ELSE size0
        looked == MapGet(pricing.AzureVMs, size)
        hourlyRate == IF looked = 0 THEN MapGet(pricing.AzureVMs, "Standard_B1s") ELSE looked
    IN  Ret(hourlyRate * 730, "Azure " \o size, TRUE)

estimateResourceCost(resourceType, attrs) ==
    IF attrs.nil THEN Ret(0, "no attributes", FALSE)
    ELSE CASE resourceType = "aws_instance" -> estimateEC2Instance(attrs)
           [] resourceType = "aws_db_instance" -> estimateRDSInstance(attrs)
           [] resourceType = "aws_ebs_volume" -> estimateEBSVolume(attrs)
           [] resourceType \in {"aws_lb", "aws_alb"} -> estimateALB(attrs)
           [] resourceType = "aws_elb" -> estimateELB(attrs)
           [] resourceType = "aws_nat_gateway" -> estimateNATGateway(attrs)
           [] resourceType = "aws_elasticache_cluster" -> estimateElasticache(attrs)
           [] resourceType = "aws_lambda_function" -> estimateLambda(attrs)
           [] resourceType = "aws_s3_bucket" -> estimateS3Bucket(attrs)
           [] resourceType = "aws_eks_cluster" -> estimateEKSCluster(attrs)
           [] resourceType = "aws_ecs_service" -> estimateECSService(attrs)
           [] resourceType = "google_compute_instance" -> estimateGCPInstance(attrs)
           [] resourceType \in {"azurerm_virtual_machine", "azurerm_linux_virtual_machine",
                                "azurerm_windows_virtual_machine"} -> estimateAzureVM(attrs)
           [] OTHER -> Ret(0, "unsupported resource type", FALSE)

(***************************************************************************)
(* Inputs of Estimate: the resource changes a plan may hold                *)
(***************************************************************************)

ActionLists ==
    { <<>>, <<"no-op">>, <<"create">>, <<"delete">>, <<"delete", "create">>,
      <<"update">>, <<"read">> }

ResourceTypes == {"aws_instance", "aws_ebs_volume", "aws_route53_zone", "aws_iam_role"}

\* The before/after attribute maps tried for each resource type.
AttrChoices(type) ==
    CASE type = "aws_instance" ->
             { NilAttrs,
               Attrs("instance_type" :> Str("t3.small")),
               Attrs("instance_type" :> Str("m5.large")) }
      [] type = "aws_ebs_volume" ->
             { Attrs("type" :> Str("gp3") @@ "size" :> Num(100)),
               Attrs("size" :> Num(-5)) }
      [] OTHER -> { Attrs(EmptyMap) }

\* plan.ResourceChange; the k-th change of a plan has the address "res<k>".
ResourceChange(k, type, actions, before, after) ==
    [ Address |-> "res" \o ToString(k),
      Type    |-> type,
      Change  |-> [Actions |-> actions, Before |-> before, After |-> after] ]

\* The changes that can stand at position k: attributes are those of the type.
Changes(k) ==
    UNION { { ResourceChange(k, type, actions, before, after) :
                  actions \in ActionLists,
                  before \in AttrChoices(type), after \in AttrChoices(type) } :
            type \in ResourceTypes }

\* The changes two concurrent calls draw their plans from: one for each case
\* of the loop body, on a priced type and two unpriced ones.
SmallChanges(k) ==
    { ResourceChange(k, "aws_instance", <<"no-op">>,
                     Attrs("instance_type" :> Str("t3.small")),
                     Attrs("instance_type" :> Str("t3.small"))),
      ResourceChange(k, "aws_instance", <<"delete", "create">>,
                     Attrs("instance_type" :> Str("t3.small")),
                     Attrs("instance_type" :> Str("m5.large"))),
      ResourceChange(k, "aws_route53_zone", <<"create">>, NilAttrs, Attrs(EmptyMap)),
      ResourceChange(k, "aws_route53_zone", <<"update">>, Attrs(EmptyMap), Attrs(EmptyMap)),
      ResourceChange(k, "aws_iam_role", <<"delete">>, Attrs(EmptyMap), NilAttrs),
      ResourceChange(k, "aws_iam_role", <<"read">>, Attrs(EmptyMap), Attrs(EmptyMap)) }

\* Types and attribute maps one call of estimateResourceCost is tried on.
PricedTypes ==
    { "aws_instance", "aws_db_instance", "aws_ebs_volume", "aws_lb", "aws_alb", "aws_elb",
      "aws_nat_gateway", "aws_elasticache_cluster", "aws_lambda_function", "aws_s3_bucket",
      "aws_eks_cluster", "aws_ecs_service", "google_compute_instance",
      "azurerm_virtual_machine", "azurerm_linux_virtual_machine",
      "azurerm_windows_virtual_machine" }

CallTypes == PricedTypes \cup {"aws_route53_zone"}

CallAttrs ==
    { NilAttrs,
      Attrs(EmptyMap),
      \* identifiers present in the tables
      Attrs("instance_type" :> Str("m5.large") @@ "instance_class" :> Str("db.m5.large")
            @@ "type" :> Str("io1") @@ "node_type" :> Str("cache.m5.large")
            @@ "machine_type" :> Str("n1-standard-1") @@ "size" :> Str("Standard_D2s_v3")),
      \* identifiers absent from the tables
      Attrs("instance_type" :> Str("x9.huge") @@ "instance_class" :> Str("db.x9.huge")
            @@ "type" :> Str("gp9") @@ "node_type" :> Str("cache.x9.huge")
            @@ "machine_type" :> Str("x9-huge") @@ "size" :> Str("Standard_X9")),
      \* identifiers that are empty strings
      Attrs("instance_type" :> Str("") @@ "instance_class" :> Str("")
            @@ "type" :> Str("") @@ "node_type" :> Str("")
            @@ "machine_type" :> Str("") @@ "size" :> Str("") @@ "vm_size" :> Str("")),
      \* identifiers that are not strings
      Attrs("instance_type" :> Num(3) @@ "instance_class" :> Other
            @@ "type" :> Num(1) @@ "node_type" :> Other
            @@ "machine_type" :> Num(2) @@ "size" :> Num(100)),
      \* numeric attributes
      Attrs("size" :> Num(100) @@ "allocated_storage" :> Num(50)
            @@ "num_cache_nodes" :> Num(3) @@ "desired_count" :> Num(2)
            @@ "memory_size" :> Num(512)),
      Attrs("size" :> Num(0) @@ "allocated_storage" :> Num(0)
            @@ "num_cache_nodes" :> Num(0) @@ "desired_count" :> Num(0)
            @@ "memory_size" :> Num(0)),
      Attrs("size" :> Num(-5) @@ "allocated_storage" :> Num(-50)
            @@ "num_cache_nodes" :> Num(-1) @@ "desired_count" :> Num(-2)
            @@ "memory_size" :> Num(-128)),
      \* Azure: the class under vm_size only, and an empty size
      Attrs("vm_size" :> Str("Standard_D2s_v3")),
      Attrs("size" :> Str("") @@ "vm_size" :> Str("Standard_D2s_v3")) }

NoCall == [type |-> "", attrs |-> NilAttrs, returned |-> FALSE, ret |-> Ret(0, "", FALSE)]

(***************************************************************************)
(* Estimator.Estimate                                                      *)
(***************************************************************************)

NewResult ==
    [ Estimates |-> <<>>, TotalMonthlyCost |-> 0, TotalMonthlyChange |-> 0,
      CreatedResources |-> 0, DestroyedResources |-> 0, UpdatedResources |-> 0,
      UnsupportedTypes |-> <<>> ]

\* No earlier call, no concurrent call.
NoFirst == [returned |-> FALSE, result |-> NewResult]
NoRoutine == [pc |-> "none", plan |-> <<>>, pos |-> 0, result |-> NewResult, unsupportedSet |-> {}]

\* The calling state: NewEstimator has run, Estimate has initialised result and
\* unsupportedSet and stands before the first iteration of the loop.
Init ==
    /\ pc = "loop"
    /\ pricing = NewDefaultPricing
    /\ plan = <<>>
    /\ result = NewResult
    /\ unsupportedSet = {}
    /\ call = NoCall
    /\ pos = 0
    /\ first = NoFirst
    /\ parked = NoRoutine

action(rc) == Join(rc.Change.Actions, "+")

Skipped(rc) == action(rc) = "no-op" \/ action(rc) = ""

CostEstimate(rc, cost, details) ==
    [ ResourceAddress |-> rc.Address, ResourceType |-> rc.Type, Action |-> action(rc),
      MonthlyCost |-> cost, Details |-> details ]

\* Unseen without the look-up in unsupportedSet.
Unseen_IgnoresSet(rc, supported) == ~supported

\* if !supported && !unsupportedSet[rc.Type]
Unseen(rc, supported) == ~supported /\ rc.Type \notin unsupportedSet

\* unsupportedSet[rc.Type] = true; append(result.UnsupportedTypes, rc.Type)
MarkUnsupported(res, rc, supported) ==
    IF Unseen(rc, supported)
    THEN [res EXCEPT !.UnsupportedTypes = Append(@, rc.Type)]
    ELSE res

MarkSet(rc, supported) ==
    IF Unseen(rc, supported) THEN unsupportedSet \cup {rc.Type} ELSE unsupportedSet

\* result.Estimates = append(result.Estimates, estimate)
AppendEstimate(res, estimate) == [res EXCEPT !.Estimates = Append(@, estimate)]

\* The loop reads the next change rc of the plan; the loop never looks ahead,
\* so the plan is revealed one change at a time.  A second call on the same
\* plan reads the changes the first call has revealed.
CanRead ==
    /\ pc = "loop"
    /\ pos < Len(plan) \/ (~first.returned /\ Len(plan) < MaxChanges)

\* The changes that can stand at the position the loop reads next.  Two
\* concurrent calls draw their plans from the smaller set.
NextChanges ==
    IF pos < Len(plan) THEN {plan[pos + 1]}
    ELSE IF parked = NoRoutine THEN Changes(pos + 1)
    ELSE SmallChanges(pos + 1)

ReadChange(rc) ==
    /\ plan' = IF pos < Len(plan) THEN plan ELSE Append(plan, rc)
    /\ pos' = pos + 1
    /\ UNCHANGED <<pc, pricing, call, first, parked>>

IsCreate(rc) ==
    containsAction(rc.Change.Actions, "create") /\ ~containsAction(rc.Change.Actions, "delete")
IsDelete(rc) ==
    containsAction(rc.Change.Actions, "delete") /\ ~containsAction(rc.Change.Actions, "create")
IsReplace(rc) ==
    containsAction(rc.Change.Actions, "create") /\ containsAction(rc.Change.Actions, "delete")
IsUpdate(rc) == containsAction(rc.Change.Actions, "update")

\* SkipNoOp without the continue: the change falls through the switch.
SkipNoOp_FallsThrough ==
    /\ CanRead
    /\ \E rc \in NextChanges :
        /\ ReadChange(rc)
        /\ Skipped(rc)
        /\ result' = AppendEstimate(result, CostEstimate(rc, 0, ""))
        /\ UNCHANGED unsupportedSet

\* if action == "no-op" || action == "" { continue }
SkipNoOp ==
    /\ CanRead
    /\ \E rc \in NextChanges :
        /\ ReadChange(rc)
        /\ Skipped(rc)
        /\ UNCHANGED <<result, unsupportedSet>>

\* CreateBody pricing the before-attributes.
CreateBody_PricesBefore(rc) ==
    LET est == estimateResourceCost(rc.Type, rc.Change.Before)
        marked == MarkUnsupported(result, rc, est.supported)
        counted == [marked EXCEPT !.TotalMonthlyChange = @ + est.cost,
                                  !.CreatedResources = @ + 1]
    IN  AppendEstimate(counted, CostEstimate(rc, est.cost, est.details))

\* case create && !delete
CreateBody(rc) ==
    LET est == estimateResourceCost(rc.Type, rc.Change.After)
        marked == MarkUnsupported(result, rc, est.supported)
        counted == [marked EXCEPT !.TotalMonthlyChange = @ + est.cost,
                                  !.CreatedResources = @ + 1]
    IN  AppendEstimate(counted, CostEstimate(rc, est.cost, est.details))

CreateResource ==
    /\ CanRead
    /\ \E rc \in NextChanges :
        /\ ReadChange(rc)
        /\ ~Skipped(rc)
        /\ IsCreate(rc)
        /\ result' = CreateBody(rc)
        /\ unsupportedSet' = MarkSet(rc, estimateResourceCost(rc.Type, rc.Change.After).supported)

\* DeleteBody recording the cost without negating it.
DeleteBody_CostNotNegated(rc) ==
    LET est == estimateResourceCost(rc.Type, rc.Change.Before)
        marked == MarkUnsupported(result, rc, est.supported)
        counted == [marked EXCEPT !.TotalMonthlyChange = @ - est.cost,
                                  !.DestroyedResources = @ + 1]
    IN  AppendEstimate(counted, CostEstimate(rc, est.cost, est.details \o " (removed)"))

\* case delete && !create
DeleteBody(rc) ==
    LET est == estimateResourceCost(rc.Type, rc.Change.Before)
        marked == MarkUnsupported(result, rc, est.supported)
        counted == [marked EXCEPT !.TotalMonthlyChange = @ - est.cost,
                                  !.DestroyedResources = @ + 1]
    IN  AppendEstimate(counted, CostEstimate(rc, 0 - est.cost, est.details \o " (removed)"))

DestroyResource ==
    /\ CanRead
    /\ \E rc \in NextChanges :
        /\ ReadChange(rc)
        /\ ~Skipped(rc)
        /\ ~IsCreate(rc)
        /\ IsDelete(rc)
        /\ result' = DeleteBody(rc)
        /\ unsupportedSet' = MarkSet(rc, estimateResourceCost(rc.Type, rc.Change.Before).supported)

\* ReplaceBody counting a replacement as one creation and one destruction.
ReplaceBody_CreatedAndDestroyed(rc) ==
    LET old == estimateResourceCost(rc.Type, rc.Change.Before)
        new == estimateResourceCost(rc.Type, rc.Change.After)
        marked == MarkUnsupported(result, rc, new.supported)
        counted == [marked EXCEPT !.TotalMonthlyChange = @ + (new.cost - old.cost),
                                  !.CreatedResources = @ + 1,
                                  !.DestroyedResources = @ + 1]
    IN  AppendEstimate(counted,
                       CostEstimate(rc, new.cost - old.cost, new.details \o " (replaced)"))

\* case create && delete
ReplaceBody(rc) ==
    LET old == estimateResourceCost(rc.Type, rc.Change.Before)
        new == estimateResourceCost(rc.Type, rc.Change.After)
        marked == MarkUnsupported(result, rc, new.supported)
        counted == [marked EXCEPT !.TotalMonthlyChange = @ + (new.cost - old.cost),
                                  !.UpdatedResources = @ + 1]
    IN  AppendEstimate(counted,
                       CostEstimate(rc, new.cost - old.cost, new.details \o " (replaced)"))

ReplaceResource ==
    /\ CanRead
    /\ \E rc \in NextChanges :
        /\ ReadChange(rc)
        /\ ~Skipped(rc)
        /\ ~IsCreate(rc) /\ ~IsDelete(rc)
        /\ IsReplace(rc)
        /\ result' = ReplaceBody(rc)
        /\ unsupportedSet' = MarkSet(rc, estimateResourceCost(rc.Type, rc.Change.After).supported)

\* UpdateBody adding the new cost, not the difference, to the total.
UpdateBody_TotalAddsNewCost(rc) ==
    LET old == estimateResourceCost(rc.Type, rc.Change.Before)
        new == estimateResourceCost(rc.Type, rc.Change.After)
        marked == MarkUnsupported(result, rc, new.supported)
        counted == [marked EXCEPT !.TotalMonthlyChange = @ + new.cost,
                                  !.UpdatedResources = @ + 1]
    IN  AppendEstimate(counted,
                       CostEstimate(rc, new.cost - old.cost, new.details \o " (updated)"))

\* case update
UpdateBody(rc) ==
    LET old == estimateResourceCost(rc.Type, rc.Change.Before)
        new == estimateResourceCost(rc.Type, rc.Change.After)
        marked == MarkUnsupported(result, rc, new.supported)
        counted == [marked EXCEPT !.TotalMonthlyChange = @ + (new.cost - old.cost),
                                  !.UpdatedResources = @ + 1]
    IN  AppendEstimate(counted,
                       CostEstimate(rc, new.cost - old.cost, new.details \o " (updated)"))

UpdateResource ==
    /\ CanRead
    /\ \E rc \in NextChanges :
        /\ ReadChange(rc)
        /\ ~Skipped(rc)
        /\ ~IsCreate(rc) /\ ~IsDelete(rc) /\ ~IsReplace(rc)
        /\ IsUpdate(rc)
        /\ result' = UpdateBody(rc)
        /\ unsupportedSet' = MarkSet(rc, estimateResourceCost(rc.Type, rc.Change.After).supported)

\* NoCaseBody counting the change as an update.
NoCaseBody_CountsUpdate(rc) ==
    AppendEstimate([result EXCEPT !.UpdatedResources = @ + 1], CostEstimate(rc, 0, ""))

\* NoCaseBody appending nothing.
NoCaseBody_DropsEstimate(rc) == result

\* No case of the switch matches: the zero-valued estimate is appended all the same.
NoCaseBody(rc) == AppendEstimate(result, CostEstimate(rc, 0, ""))

NoCase ==
    /\ CanRead
    /\ \E rc \in NextChanges :
        /\ ReadChange(rc)
        /\ ~Skipped(rc)
        /\ ~IsCreate(rc) /\ ~IsDelete(rc) /\ ~IsReplace(rc) /\ ~IsUpdate(rc)
        /\ result' = NoCaseBody(rc)
        /\ UNCHANGED unsupportedSet

\* The range loop ends; result.TotalMonthlyCost = result.TotalMonthlyChange; return.
Return ==
    /\ pc = "loop"
    /\ first.returned => pos = Len(plan)
    /\ pc' = "done"
    /\ result' = [result EXCEPT !.TotalMonthlyCost = result.TotalMonthlyChange]
    /\ UNCHANGED <<pricing, plan, unsupportedSet, call, pos, first, parked>>

Next ==
    \/ SkipNoOp
    \/ CreateResource
    \/ DestroyResource
    \/ ReplaceResource
    \/ UpdateResource
    \/ NoCase
    \/ Return

Spec == Init /\ [][Next]_vars

(***************************************************************************)
(* A second call of Estimate on the same estimator and the same plan       *)
(***************************************************************************)

\* CallAgain keeping the unsupportedSet of the first call.
CallAgain_KeepsUnsupportedSet ==
    /\ pc = "done"
    /\ ~first.returned
    /\ first' = [returned |-> TRUE, result |-> result]
    /\ pc' = "loop"
    /\ pos' = 0
    /\ result' = NewResult
    /\ UNCHANGED <<pricing, plan, unsupportedSet, call, parked>>

\* The caller keeps what the first call returned and calls Estimate again:
\* result and unsupportedSet are made anew, the estimator is the same.
CallAgain ==
    /\ pc = "done"
    /\ ~first.returned
    /\ first' = [returned |-> TRUE, result |-> result]
    /\ pc' = "loop"
    /\ pos' = 0
    /\ result' = NewResult
    /\ unsupportedSet' = {}
    /\ UNCHANGED <<pricing, plan, call, parked>>

NextTwice == Next \/ CallAgain

SpecTwice == Init /\ [][NextTwice]_vars

(***************************************************************************)
(* Two concurrent calls of Estimate on the same estimator                  *)
(***************************************************************************)

\* The second call stands before the first iteration of its own loop.
InitConcurrent ==
    /\ pc = "loop"
    /\ pricing = NewDefaultPricing
    /\ plan = <<>>
    /\ result = NewResult
    /\ unsupportedSet = {}
    /\ call = NoCall
    /\ pos = 0
    /\ first = NoFirst
    /\ parked = [pc |-> "loop", plan |-> <<>>, pos |-> 0, result |-> NewResult,
                 unsupportedSet |-> {}]

\* Switch with unsupportedSet shared by the two calls.
Switch_SharesUnsupportedSet ==
    /\ parked # NoRoutine
    /\ parked' = [pc |-> pc, plan |-> plan, pos |-> pos, result |-> result,
                  unsupportedSet |-> parked.unsupportedSet]
    /\ pc' = parked.pc
    /\ plan' = parked.plan
    /\ pos' = parked.pos
    /\ result' = parked.result
    /\ UNCHANGED <<pricing, call, first, unsupportedSet>>

\* The scheduler runs the other call: the locals of the two calls change
\* places, the estimator and its catalog are the same for both.
Switch ==
    /\ parked # NoRoutine
    /\ parked' = [pc |-> pc, plan |-> plan, pos |-> pos, result |-> result,
                  unsupportedSet |-> unsupportedSet]
    /\ pc' = parked.pc
    /\ plan' = parked.plan
    /\ pos' = parked.pos
    /\ result' = parked.result
    /\ unsupportedSet' = parked.unsupportedSet
    /\ UNCHANGED <<pricing, call, first>>

NextConcurrent == Next \/ Switch

SpecConcurrent == InitConcurrent /\ [][NextConcurrent]_vars

(***************************************************************************)
(* One call of estimateResourceCost on its own                             *)
(***************************************************************************)

InitCall ==
    /\ pc = "call"
    /\ pricing = NewDefaultPricing
    /\ plan = <<>>
    /\ result = NewResult
    /\ unsupportedSet = {}
    /\ call \in { [type |-> t, attrs |-> a, returned |-> FALSE, ret |-> Ret(0, "", FALSE)] :
                      t \in CallTypes, a \in CallAttrs }
    /\ pos = 0
    /\ first = NoFirst
    /\ parked = NoRoutine

PriceResource ==
    /\ pc = "call"
    /\ pc' = "returned"
    /\ call' = [call EXCEPT !.returned = TRUE,
                            !.ret = estimateResourceCost(call.type, call.attrs)]
    /\ UNCHANGED <<pricing, plan, result, unsupportedSet, pos, first, parked>>

NextCall == PriceResource

SpecCall == InitCall /\ [][NextCall]_vars

\* What every state of either specification looks like.
TypeOK ==
    /\ pc \in {"loop", "done", "call", "returned"}
    /\ pricing = NewDefaultPricing
    /\ Len(plan) <= MaxChanges
    /\ pos <= Len(plan)
    /\ Len(result.Estimates) <= Len(plan)
    /\ unsupportedSet \subseteq ResourceTypes

(***************************************************************************)
(* Properties                                                              *)
(***************************************************************************)

\* price(attrs): the monthly cost the pricing rules give a resource.
Price(type, attrs) == estimateResourceCost(type, attrs).cost

Has(rc, tag) == \E i \in 1..Len(rc.Change.Actions) : rc.Change.Actions[i] = tag

\* A step of the loop, and the change it has read.
Reads == Len(plan') = Len(plan) + 1
Read == plan'[Len(plan')]

SameCounts(fields) == \A f \in fields : result'[f] = result[f]

\* C1: a step on a replace change (create and delete together), or on a change
\* with update and neither create nor delete, adds price(after) - price(before)
\* to the total delta and 1 to the updated count, and leaves the created and
\* destroyed counts alone.
C1_ReplaceCountsAsUpdate ==
    [][ (Reads /\ (\/ Has(Read, "create") /\ Has(Read, "delete")
                   \/ Has(Read, "update") /\ ~Has(Read, "create") /\ ~Has(Read, "delete")))
        => /\ result'.TotalMonthlyChange =
                  result.TotalMonthlyChange
                    + (Price(Read.Type, Read.Change.After) - Price(Read.Type, Read.Change.Before))
           /\ result'.UpdatedResources = result.UpdatedResources + 1
           /\ SameCounts({"CreatedResources", "DestroyedResources"}) ]_vars

\* An aws_instance of size t3.small replaced by m5.large, alone in the plan.
C1_Witness ==
    /\ pc = "done"
    /\ Len(plan) = 1
    /\ plan[1].Type = "aws_instance"
    /\ plan[1].Change.Actions = <<"delete", "create">>
    /\ plan[1].Change.Before = Attrs("instance_type" :> Str("t3.small"))
    /\ plan[1].Change.After = Attrs("instance_type" :> Str("m5.large"))
    /\ result.TotalMonthlyChange = (R(960) * 730) - (R(208) * 730)
    /\ result.UpdatedResources = 1
    /\ result.CreatedResources = 0
    /\ result.DestroyedResources = 0

\* C2: a step on a create-only change adds price(after) to the total delta and
\* 1 to the created count, and leaves the destroyed and updated counts alone.
C2_CreateAddsPriceAfter ==
    [][ (Reads /\ Has(Read, "create") /\ ~Has(Read, "delete"))
        => /\ result'.TotalMonthlyChange =
                  result.TotalMonthlyChange + Price(Read.Type, Read.Change.After)
           /\ result'.CreatedResources = result.CreatedResources + 1
           /\ SameCounts({"DestroyedResources", "UpdatedResources"}) ]_vars

\* An aws_instance of size t3.small created alone.
C2_Witness ==
    /\ pc = "done"
    /\ Len(plan) = 1
    /\ plan[1].Type = "aws_instance"
    /\ plan[1].Change.Actions = <<"create">>
    /\ plan[1].Change.After = Attrs("instance_type" :> Str("t3.small"))
    /\ result.TotalMonthlyChange = R(208) * 730
    /\ result.Estimates[1].MonthlyCost = R(208) * 730
    /\ result.CreatedResources = 1
    /\ result.DestroyedResources = 0
    /\ result.UpdatedResources = 0

\* C3: a step on a delete-only change subtracts price(before) from the total
\* delta, records an estimate whose monthly cost is the negation of that price
\* and adds 1 to the destroyed count, leaving the created and updated counts alone.
C3_DeleteSubtractsPriceBefore ==
    [][ (Reads /\ Has(Read, "delete") /\ ~Has(Read, "create"))
        => /\ result'.TotalMonthlyChange =
                  result.TotalMonthlyChange - Price(Read.Type, Read.Change.Before)
           /\ Len(result'.Estimates) = Len(result.Estimates) + 1
           /\ result'.Estimates[Len(result'.Estimates)].MonthlyCost =
                  0 - Price(Read.Type, Read.Change.Before)
           /\ result'.DestroyedResources = result.DestroyedResources + 1
           /\ SameCounts({"CreatedResources", "UpdatedResources"}) ]_vars

\* A gp3 volume of 100 GB destroyed alone.
C3_Witness ==
    /\ pc = "done"
    /\ Len(plan) = 1
    /\ plan[1].Type = "aws_ebs_volume"
    /\ plan[1].Change.Actions = <<"delete">>
    /\ plan[1].Change.Before = Attrs("type" :> Str("gp3") @@ "size" :> Num(100))
    /\ result.TotalMonthlyChange = 0 - (100 * R(800))
    /\ result.Estimates[1].MonthlyCost = 0 - (100 * R(800))
    /\ result.DestroyedResources = 1

\* C4: a step on a change whose joined action label is empty or "no-op" adds
\* no estimate and leaves the total delta, the three counts and the
\* unsupported-types list as they were.
C4_NoOpIsSkipped ==
    [][ (Reads /\ Join(Read.Change.Actions, "+") \in {"", "no-op"})
        => /\ result'.Estimates = result.Estimates
           /\ result'.TotalMonthlyChange = result.TotalMonthlyChange
           /\ SameCounts({"CreatedResources", "DestroyedResources", "UpdatedResources"})
           /\ result'.UnsupportedTypes = result.UnsupportedTypes ]_vars

\* A no-op change and a change without actions, both of an unpriced type.
C4_Witness ==
    /\ pc = "done"
    /\ Len(plan) = 2
    /\ plan[1].Change.Actions = <<"no-op">>
    /\ plan[2].Change.Actions = <<>>
    /\ plan[1].Type = "aws_route53_zone"
    /\ result = NewResult

RECURSIVE SumMonthlyCost(_)
SumMonthlyCost(estimates) ==
    IF estimates = <<>> THEN 0
    ELSE estimates[1].MonthlyCost + SumMonthlyCost(Tail(estimates))

\* C5: when Estimate has returned, the total monthly delta is the sum of the
\* MonthlyCost fields of the estimates, and TotalMonthlyCost equals
\* TotalMonthlyChange.
C5_TotalIsSumOfEstimates ==
    pc = "done" =>
        /\ result.TotalMonthlyChange = SumMonthlyCost(result.Estimates)
        /\ result.TotalMonthlyCost = result.TotalMonthlyChange

\* Two estimates of opposite sign and a total that is not zero.
C5_Witness ==
    /\ pc = "done"
    /\ Len(result.Estimates) = 2
    /\ result.Estimates[1].MonthlyCost > 0
    /\ result.Estimates[2].MonthlyCost < 0
    /\ result.TotalMonthlyCost # 0
    /\ result.TotalMonthlyCost = result.Estimates[1].MonthlyCost + result.Estimates[2].MonthlyCost

\* The changes of the plan that are not skipped, in plan order.
RECURSIVE NotSkipped(_)
NotSkipped(changes) ==
    IF changes = <<>> THEN <<>>
    ELSE IF Join(Head(changes).Change.Actions, "+") \in {"", "no-op"}
         THEN NotSkipped(Tail(changes))
         ELSE <<Head(changes)>> \o NotSkipped(Tail(changes))

\* The attributes a change is priced on for the supported flag: after for a
\* change with create, before for delete-only, after for update.
PricedUnsupported(rc) ==
    CASE Has(rc, "create") -> ~estimateResourceCost(rc.Type, rc.Change.After).supported
      [] Has(rc, "delete") -> ~estimateResourceCost(rc.Type, rc.Change.Before).supported
      [] Has(rc, "update") -> ~estimateResourceCost(rc.Type, rc.Change.After).supported
      [] OTHER -> FALSE

\* The types of the changes priced as unsupported, each at its first occurrence.
RECURSIVE FirstTriggers(_, _)
FirstTriggers(changes, seen) ==
    IF changes = <<>> THEN <<>>
    ELSE LET rc == Head(changes)
         IN  IF ~(Join(rc.Change.Actions, "+") \in {"", "no-op"})
                  /\ PricedUnsupported(rc) /\ rc.Type \notin seen
             THEN <<rc.Type>> \o FirstTriggers(Tail(changes), seen \cup {rc.Type})
             ELSE FirstTriggers(Tail(changes), seen)

\* C6: UnsupportedTypes has no repeated entry, and lists the types of the
\* changes priced as unsupported in the order of the first change that
\* triggered each.
C6_UnsupportedTypesDeduplicated ==
    pc \in {"loop", "done"} =>
        /\ \A i, j \in 1..Len(result.UnsupportedTypes) :
               result.UnsupportedTypes[i] = result.UnsupportedTypes[j] => i = j
        /\ result.UnsupportedTypes = FirstTriggers(plan, {})

\* Two changes of the same unpriced type: the type is listed once.
C6_Witness ==
    /\ pc = "done"
    /\ Len(plan) = 2
    /\ plan[1].Type = "aws_iam_role" /\ plan[1].Change.Actions = <<"create">>
    /\ plan[2].Type = "aws_iam_role" /\ plan[2].Change.Actions = <<"delete">>
    /\ result.UnsupportedTypes = <<"aws_iam_role">>
    /\ result.CreatedResources = 1

\* C7: every type in UnsupportedTypes is a type without a pricing rule.
C7_UnsupportedTypesHaveNoRule ==
    \A i \in 1..Len(result.UnsupportedTypes) : result.UnsupportedTypes[i] \notin PricedTypes

\* C8: Estimates holds one record per change that is not skipped, in plan
\* order: the i-th record carries the address and the type of the i-th such change.
C8_OneEstimatePerChange ==
    pc \in {"loop", "done"} =>
        LET kept == NotSkipped(plan)
        IN  /\ Len(result.Estimates) = Len(kept)
            /\ \A i \in 1..Len(result.Estimates) :
                   /\ result.Estimates[i].ResourceAddress = kept[i].Address
                   /\ result.Estimates[i].ResourceType = kept[i].Type

\* A skipped change, then a change no case of the switch matches.
C8_Witness ==
    /\ pc = "done"
    /\ Len(plan) = 2
    /\ plan[1].Change.Actions = <<"no-op">>
    /\ plan[2].Change.Actions = <<"read">>
    /\ plan[2].Type = "aws_ebs_volume"
    /\ Len(result.Estimates) = 1
    /\ result.Estimates[1].ResourceAddress = "res2"
    /\ result.Estimates[1].ResourceType = "aws_ebs_volume"

\* The string attrs holds under key, if it holds one.
HasString(attrs, key) == key \in DOMAIN attrs.kv /\ attrs.kv[key].kind = "string"

\* The identifier of the call is a string that its family's table lacks.
Missing(key, table) ==
    /\ ~call.attrs.nil
    /\ HasString(call.attrs, key)
    /\ call.attrs.kv[key].s \notin DOMAIN table

Fallback(table, key) == key \in DOMAIN table /\ table[key] > 0

\* C9: pricing an identifier that a family's table lacks uses the family's
\* fallback rate, which is in the table and positive.  (An Azure size of ""
\* makes vm_size the identifier.)
C9_MissingClassUsesFallback ==
    pc = "returned" =>
        /\ (call.type = "aws_instance" /\ Missing("instance_type", pricing.EC2Instances))
           => /\ Fallback(pricing.EC2Instances, "t3.micro")
              /\ call.ret.cost = pricing.EC2Instances["t3.micro"] * 730
        /\ (call.type = "aws_db_instance" /\ Missing("instance_class", pricing.RDSInstances))
           => /\ Fallback(pricing.RDSInstances, "db.t3.micro")
              /\ call.ret.cost = (pricing.RDSInstances["db.t3.micro"] * 730)
                     + (getFloat64Attr(call.attrs, "allocated_storage", 20)
                          * pricing.EBSStorage["gp2"])
        /\ (call.type = "aws_ebs_volume" /\ Missing("type", pricing.EBSStorage))
           => /\ Fallback(pricing.EBSStorage, "gp2")
              /\ call.ret.cost = getFloat64Attr(call.attrs, "size", 8) * pricing.EBSStorage["gp2"]
        /\ (call.type = "aws_elasticache_cluster" /\ Missing("node_type", pricing.Elasticache))
           => /\ Fallback(pricing.Elasticache, "cache.t3.micro")
              /\ call.ret.cost = pricing.Elasticache["cache.t3.micro"] * 730
                     * getFloat64Attr(call.attrs, "num_cache_nodes", 1)
        /\ (call.type = "google_compute_instance" /\ Missing("machine_type", pricing.GCPInstances))
           => /\ Fallback(pricing.GCPInstances, "e2-micro")
              /\ call.ret.cost = pricing.GCPInstances["e2-micro"] * 730
        /\ (call.type \in {"azurerm_virtual_machine", "azurerm_linux_virtual_machine",
                           "azurerm_windows_virtual_machine"}
              /\ Missing("size", pricing.AzureVMs)
              /\ (call.attrs.kv["size"].s = "" => Missing("vm_size", pricing.AzureVMs)))
           => /\ Fallback(pricing.AzureVMs, "Standard_B1s")
              /\ call.ret.cost = pricing.AzureVMs["Standard_B1s"] * 730
        /\ (call.type \in PricedTypes /\ ~call.attrs.nil) => call.ret.supported

\* An aws_instance of a size the EC2 table lacks is priced as a t3.micro.
C9_Witness ==
    /\ pc = "returned"
    /\ call.type = "aws_instance"
    /\ Missing("instance_type", pricing.EC2Instances)
    /\ call.attrs.kv["instance_type"].s = "x9.huge"
    /\ call.ret.cost = R(104) * 730
    /\ call.ret.supported

\* C10: a step on a create-only change adds a non-negative amount to the total
\* delta and records a non-negative MonthlyCost.
C10_CreateCostNonNegative ==
    [][ (Reads /\ Has(Read, "create") /\ ~Has(Read, "delete"))
        => /\ result'.TotalMonthlyChange - result.TotalMonthlyChange >= 0
           /\ Len(result'.Estimates) > 0
           /\ result'.Estimates[Len(result'.Estimates)].MonthlyCost >= 0 ]_vars

\* A step on a change that is not skipped and has none of create, delete, update.
ReadsNoCase ==
    /\ Reads
    /\ Join(Read.Change.Actions, "+") \notin {"", "no-op"}
    /\ ~Has(Read, "create") /\ ~Has(Read, "delete") /\ ~Has(Read, "update")

\* C13 as stated: a step on a change that is not skipped and has none of
\* create, delete, update adds no estimate record and changes no count and no
\* total.
C13_NoCaseAddsNothing ==
    [][ ReadsNoCase => result' = result ]_vars

\* C13 as amended: such a step appends exactly one estimate record, with the
\* change's address, type and label, a monthly cost of 0 and empty details,
\* and changes no count, no total and not the unsupported-types list.
C13_NoCaseAddsZeroEstimate ==
    [][ ReadsNoCase
        => result' = [result EXCEPT !.Estimates =
                         Append(@, [ ResourceAddress |-> Read.Address,
                                     ResourceType |-> Read.Type,
                                     Action |-> Join(Read.Change.Actions, "+"),
                                     MonthlyCost |-> 0,
                                     Details |-> "" ])] ]_vars

\* A change with the only action "read", of a priced type, alone in the plan.
C13_Witness ==
    /\ pc = "done"
    /\ Len(plan) = 1
    /\ plan[1].Change.Actions = <<"read">>
    /\ plan[1].Type = "aws_instance"
    /\ Len(result.Estimates) = 1
    /\ result.Estimates[1].Action = "read"
    /\ result.Estimates[1].MonthlyCost = 0
    /\ result.UpdatedResources = 0
    /\ result.TotalMonthlyCost = 0

\* The entry each family's pricing function falls back to.
FallbackKey ==
    [ EC2Instances |-> "t3.micro", RDSInstances |-> "db.t3.micro", EBSStorage |-> "gp2",
      Elasticache |-> "cache.t3.micro", GCPInstances |-> "e2-micro",
      AzureVMs |-> "Standard_B1s" ]

Lowest(table, key) == key \in DOMAIN table /\ \A k \in DOMAIN table : table[key] <= table[k]

\* The lowest rate of a table.
MinRate(table) == CHOOSE r \in {table[k] : k \in DOMAIN table} :
                      \A k \in DOMAIN table : r <= table[k]

\* C14 as stated: in every family the fallback entry is in the table and has
\* the lowest rate of the family.
C14_FallbackIsCheapest ==
    \A family \in DOMAIN FallbackKey : Lowest(pricing[family], FallbackKey[family])

\* C14 as amended: in every family the fallback entry is in the table with a
\* positive rate; it has the lowest rate of the family for RDS, ElastiCache,
\* GCP and Azure, where a missing class is priced at the family's lowest rate,
\* but not for EC2 (t3a.nano is the lowest) nor for EBS (sc1 is the lowest).
C14_FallbackCheapestButEC2AndEBS ==
    /\ \A family \in DOMAIN FallbackKey : Fallback(pricing[family], FallbackKey[family])
    /\ \A family \in {"RDSInstances", "Elasticache", "GCPInstances", "AzureVMs"} :
           Lowest(pricing[family], FallbackKey[family])
    /\ Lowest(pricing.EC2Instances, "t3a.nano")
    /\ pricing.EC2Instances["t3a.nano"] < pricing.EC2Instances["t3.micro"]
    /\ Lowest(pricing.EBSStorage, "sc1")
    /\ pricing.EBSStorage["sc1"] < pricing.EBSStorage["gp2"]
    /\ pc = "returned" =>
        /\ (call.type = "aws_db_instance" /\ Missing("instance_class", pricing.RDSInstances))
           => call.ret.cost = (MinRate(pricing.RDSInstances) * 730)
                  + (getFloat64Attr(call.attrs, "allocated_storage", 20)
                       * pricing.EBSStorage["gp2"])
        /\ (call.type = "aws_elasticache_cluster" /\ Missing("node_type", pricing.Elasticache))
           => call.ret.cost = MinRate(pricing.Elasticache) * 730
                  * getFloat64Attr(call.attrs, "num_cache_nodes", 1)
        /\ (call.type = "google_compute_instance" /\ Missing("machine_type", pricing.GCPInstances))
           => call.ret.cost = MinRate(pricing.GCPInstances) * 730
        /\ (call.type \in {"azurerm_virtual_machine", "azurerm_linux_virtual_machine",
                           "azurerm_windows_virtual_machine"}
              /\ Missing("size", pricing.AzureVMs)
              /\ (call.attrs.kv["size"].s = "" => Missing("vm_size", pricing.AzureVMs)))
           => call.ret.cost = MinRate(pricing.AzureVMs) * 730
        /\ (call.type = "aws_instance" /\ Missing("instance_type", pricing.EC2Instances))
           => call.ret.cost > MinRate(pricing.EC2Instances) * 730

\* A google_compute_instance of a machine type the GCP table lacks is priced
\* at the lowest GCP rate, that of e2-micro.
C14_Witness ==
    /\ pc = "returned"
    /\ call.type = "google_compute_instance"
    /\ Missing("machine_type", pricing.GCPInstances)
    /\ call.attrs.kv["machine_type"].s = "x9-huge"
    /\ call.ret.cost = R(84) * 730
    /\ call.ret.cost = MinRate(pricing.GCPInstances) * 730

\* C15: an Azure virtual machine whose attributes have no "size" key and a
\* "vm_size" that the Azure table holds is priced at that class's rate x 730.
C15_AzureVmSizeIsLookedUp ==
    (/\ pc = "returned"
     /\ call.type \in {"azurerm_virtual_machine", "azurerm_linux_virtual_machine",
                       "azurerm_windows_virtual_machine"}
     /\ ~call.attrs.nil
     /\ "size" \notin DOMAIN call.attrs.kv
     /\ HasString(call.attrs, "vm_size")
     /\ call.attrs.kv["vm_size"].s \in DOMAIN pricing.AzureVMs)
    => call.ret.cost = pricing.AzureVMs[call.attrs.kv["vm_size"].s] * 730

\* C11: a second call of Estimate on the same estimator and the same plan
\* returns the value the first call returned: the same estimates in the same
\* order, the same totals and counts, the same UnsupportedTypes.
C11_SecondCallReturnsTheSame ==
    (first.returned /\ pc = "done") => result = first.result

\* Both calls have returned on a plan of a priced and an unpriced change.
C11_Witness ==
    /\ first.returned
    /\ pc = "done"
    /\ Len(plan) = 2
    /\ pos = 2
    /\ Len(result.Estimates) = 2
    /\ Len(result.UnsupportedTypes) = 1
    /\ result.TotalMonthlyCost # 0
    /\ result = first.result

\* Estimate run alone on a whole plan, written as a fold over the changes:
\* what one change does to the result and to the set of types seen unsupported.
AloneStep(acc, rc) ==
    LET label == Join(rc.Change.Actions, "+")
        before == estimateResourceCost(rc.Type, rc.Change.Before)
        after == estimateResourceCost(rc.Type, rc.Change.After)
        kind == IF label \in {"", "no-op"} THEN "skip"
                ELSE IF Has(rc, "create") /\ ~Has(rc, "delete") THEN "create"
                ELSE IF Has(rc, "delete") /\ ~Has(rc, "create") THEN "delete"
                ELSE IF Has(rc, "create") /\ Has(rc, "delete") THEN "replace"
                ELSE IF Has(rc, "update") THEN "update"
                ELSE "none"
        cost == CASE kind = "create" -> after.cost
                  [] kind = "delete" -> 0 - before.cost
                  [] kind \in {"replace", "update"} -> after.cost - before.cost
                  [] OTHER -> 0
        details == CASE kind = "create" -> after.details
                     [] kind = "delete" -> before.details \o " (removed)"
                     [] kind = "replace" -> after.details \o " (replaced)"
                     [] kind = "update" -> after.details \o " (updated)"
                     [] OTHER -> ""
        flagged == \/ kind \in {"create", "replace", "update"} /\ ~after.supported
                   \/ kind = "delete" /\ ~before.supported
        new == flagged /\ rc.Type \notin acc.seen
        Plus(n, k) == IF kind = k THEN n + 1 ELSE n
    IN  IF kind = "skip" THEN acc
        ELSE [ seen |-> IF new THEN acc.seen \cup {rc.Type} ELSE acc.seen,
               result |->
                   [ Estimates |->
                         Append(acc.result.Estimates,
                                [ ResourceAddress |-> rc.Address, ResourceType |-> rc.Type,
                                  Action |-> label, MonthlyCost |-> cost,
                                  Details |-> details ]),
                     TotalMonthlyCost |-> 0,
                     TotalMonthlyChange |-> acc.result.TotalMonthlyChange + cost,
                     CreatedResources |-> Plus(acc.result.CreatedResources, "create"),
                     DestroyedResources |-> Plus(acc.result.DestroyedResources, "delete"),
                     UpdatedResources |->
                         Plus(Plus(acc.result.UpdatedResources, "replace"), "update"),
                     UnsupportedTypes |->
                         IF new THEN Append(acc.result.UnsupportedTypes, rc.Type)
                         ELSE acc.result.UnsupportedTypes ] ]

RECURSIVE AloneFold(_, _)
AloneFold(acc, changes) ==
    IF changes = <<>> THEN acc
    ELSE AloneFold(AloneStep(acc, Head(changes)), Tail(changes))

\* What Estimate returns on a plan when no other call runs.
Alone(changes) ==
    LET res == AloneFold([seen |-> {}, result |-> NewResult], changes).result
    IN  [res EXCEPT !.TotalMonthlyCost = res.TotalMonthlyChange]

\* C12: of two calls of Estimate that run concurrently on plans of their own,
\* under every interleaving each returns what it returns when run alone, and
\* the price catalog stays what NewDefaultPricing built.
C12_ConcurrentCallsAreIndependent ==
    /\ pricing = NewDefaultPricing
    /\ pc = "done" => result = Alone(plan)
    /\ parked.pc = "done" => parked.result = Alone(parked.plan)

\* Both calls have returned, on different plans that share an unpriced type.
C12_Witness ==
    /\ pc = "done"
    /\ parked.pc = "done"
    /\ Len(plan) = 2
    /\ Len(parked.plan) = 2
    /\ plan # parked.plan
    /\ result.UnsupportedTypes = <<"aws_route53_zone">>
    /\ parked.result.UnsupportedTypes = <<"aws_iam_role", "aws_route53_zone">>
    /\ result.CreatedResources = 1
    /\ result.UpdatedResources = 1

====
